---- MODULE Spec2Model ----
(***************************************************************************)
(* ZMART prediction market core (programs/zmart-core): the LMSR fixed-     *)
(* point math, the fee splitter, the bounded-loss verifier and the market  *)
(* lifecycle instructions, as a state machine over one GlobalConfig, one   *)
(* market account and the positions of that market.                        *)
(*                                                                         *)
(* Fallible Rust functions (Result<T>) are operators that return a record  *)
(* [err |-> code, v |-> value]; err = "Ok" is success and every other code *)
(* is the ErrorCode variant the function returns.  An instruction is an    *)
(* operator over the current accounts that returns such a record together  *)
(* with the accounts it would leave; the transaction commits them only     *)
(* when the code is "Ok" (a failed transaction changes no account).        *)
(*                                                                         *)
(* Scale.  The source fixes PRECISION = 10^9 and computes in u64 with u128 *)
(* intermediates.  TLC's integers are 32 bits wide, so the model keeps     *)
(* every formula of the source but evaluates it with three decimals        *)
(* (PRECISION = 10^3, LN_2 = 0.693).  All other constants are the source's *)
(* expressions over PRECISION.  Within the modelled ranges no u64/u128     *)
(* intermediate of the source overflows, so the OverflowError branches of  *)
(* checked_add/checked_mul are not represented; checked_sub and the        *)
(* division guards are.                                                    *)
(***************************************************************************)
EXTENDS Integers, Naturals, Sequences, FiniteSets, TLC

\* ------------------------------------------------------------------------
\* Result values
\* ------------------------------------------------------------------------
Ok(v) == [err |-> "Ok", v |-> v]

Err(e) == [err |-> e, v |-> 0]

IsOk(r) == r.err = "Ok"

\* `let v = e?;` followed by F: the value of an Ok result is handed on, an
\* Err is returned as it is.
Then(r, F(_)) == IF IsOk(r) THEN F(r.v) ELSE r

\* `let v = e;` followed by F.
Let(v, F(_)) == F(v)

\* ------------------------------------------------------------------------
\* math/mod.rs, math/lmsr.rs: constants
\* ------------------------------------------------------------------------
PRECISION == 1000

LN_2 == 693

MAX_EXP == 20 * PRECISION

MIN_B == 100 * PRECISION

MIN_TRADE_AMOUNT == 10000

\* ------------------------------------------------------------------------
\* math/lmsr.rs: fixed-point utilities
\* ------------------------------------------------------------------------
fixed_mul(a, b) == Ok((a * b) \div PRECISION)

fixed_div(a, b) ==
    IF b = 0 THEN Err("DivisionByZero")
    ELSE Ok((a * PRECISION) \div b)

\* Pade (2,2): (1 + x/2 + x^2/12) / (1 - x/2 + x^2/12).  The denominator is
\* built left to right with checked arithmetic: PRECISION.checked_sub(x / 2)
\* comes first and fails with UnderflowError as soon as x / 2 > PRECISION.
fixed_exp(x) ==
    IF x > MAX_EXP THEN Err("ExponentTooLarge")
    ELSE LET x2 == fixed_mul(x, x).v
             num == PRECISION + (x \div 2) + (x2 \div 12)
         IN  IF (x \div 2) > PRECISION THEN Err("UnderflowError")
             ELSE fixed_div(num, PRECISION - (x \div 2) + (x2 \div 12))

fixed_exp_negative(x) ==
    LET exp_x == fixed_exp(x)
    IN  IF ~IsOk(exp_x) THEN exp_x ELSE fixed_div(PRECISION, exp_x.v)

\* Range reduction of fixed_ln: halve while >= 2.0, then double while < 0.5;
\* returns <<x_reduced, exponent>>.
RECURSIVE ln_reduce_up(_, _)
ln_reduce_up(x, e) ==
    IF x < PRECISION \div 2 THEN ln_reduce_up(x * 2, e - 1) ELSE <<x, e>>

RECURSIVE ln_reduce_down(_, _)
ln_reduce_down(x, e) ==
    IF x >= 2 * PRECISION THEN ln_reduce_down(x \div 2, e + 1)
    ELSE ln_reduce_up(x, e)

fixed_ln(x) ==
    IF x <= 0 THEN Err("InvalidInput")
    ELSE IF x = PRECISION THEN Ok(0)
    ELSE
    Let(ln_reduce_down(x, 0), LAMBDA reduced :
    Let(reduced[1], LAMBDA x_reduced :
    Let(IF x_reduced >= PRECISION
        THEN fixed_div(x_reduced - PRECISION, x_reduced + PRECISION).v
        ELSE Let(fixed_div(PRECISION, x_reduced).v, LAMBDA inv :
                 fixed_div(inv - PRECISION, inv + PRECISION).v), LAMBDA y :
    Let(fixed_mul(y, y).v, LAMBDA y2 :
    Let(fixed_mul(y2, y).v, LAMBDA y3 :
    Let(fixed_mul(y3, y2).v, LAMBDA y5 :
    Let(2 * (y + (y3 \div 3) + (y5 \div 5)), LAMBDA series :
    Let(reduced[2] * LN_2, LAMBDA adjustment :
        IF adjustment >= 0 THEN Ok(series + adjustment)
        ELSE IF series < -adjustment THEN Err("UnderflowError")
        ELSE Ok(series + adjustment)))))))))

log_sum_exp(x, y) ==
    Then(fixed_exp_negative(IF x >= y THEN x - y ELSE y - x), LAMBDA exp_neg_diff :
    Then(fixed_ln(PRECISION + exp_neg_diff), LAMBDA ln_term :
    Ok((IF x >= y THEN x ELSE y) + ln_term)))

cost_function(q_yes, q_no, b) ==
    IF b < MIN_B THEN Err("InvalidBParameter")
    ELSE
    Then(fixed_div(q_yes, b), LAMBDA x :
    Then(fixed_div(q_no, b), LAMBDA y :
    Then(log_sum_exp(x, y), LAMBDA log_sum :
    fixed_mul(b, log_sum))))

calculate_yes_price(q_yes, q_no, b) ==
    IF b < MIN_B THEN Err("InvalidBParameter")
    ELSE IF q_yes >= q_no
    THEN Then(fixed_div(q_yes - q_no, b), LAMBDA diff :
         Then(fixed_exp(diff), LAMBDA exp_ratio :
         fixed_div(exp_ratio, exp_ratio + PRECISION)))
    ELSE Then(fixed_div(q_no - q_yes, b), LAMBDA diff :
         Then(fixed_exp(diff), LAMBDA exp_ratio :
         fixed_div(PRECISION, PRECISION + exp_ratio)))

\* A NO price computed on its own by the mirrored softmax, not as the
\* complement of the YES price.
calculate_no_price_mirrored(q_yes, q_no, b) ==
    calculate_yes_price(q_no, q_yes, b)

calculate_no_price(q_yes, q_no, b) ==
    Then(calculate_yes_price(q_yes, q_no, b), LAMBDA yes_price :
    IF yes_price > PRECISION THEN Err("UnderflowError")
    ELSE Ok(PRECISION - yes_price))

\* The loop of shares_for_cost: `iter` iterations are left, [low, high] is the
\* current bracket.  Returns Ok(shares) or the first error of cost_function.
RECURSIVE shares_search(_, _, _, _, _, _, _, _, _)
shares_search(q_yes, q_no, b, outcome, target_cost, cost_before, low, high, iter) ==
    IF iter = 0 \/ high - low <= PRECISION \div 1000 THEN Ok(low)
    ELSE
    Let(low + ((high - low) \div 2), LAMBDA mid :
    Then(IF outcome THEN cost_function(q_yes + mid, q_no, b)
                    ELSE cost_function(q_yes, q_no + mid, b), LAMBDA cost_after :
    IF cost_after < cost_before THEN Err("UnderflowError")
    ELSE IF cost_after - cost_before < target_cost
    THEN shares_search(q_yes, q_no, b, outcome, target_cost, cost_before,
                       mid + 1, high, iter - 1)
    ELSE IF cost_after - cost_before > target_cost
    THEN shares_search(q_yes, q_no, b, outcome, target_cost, cost_before,
                       low, mid, iter - 1)
    ELSE Ok(mid)))

shares_for_cost(current_q_yes, current_q_no, b, outcome, target_cost) ==
    Then(cost_function(current_q_yes, current_q_no, b), LAMBDA cost_before :
    shares_search(current_q_yes, current_q_no, b, outcome, target_cost,
                  cost_before, 0, 20 * b, 50))

\* Returns Ok(<<actual_cost, shares>>).
calculate_buy_cost(current_q_yes, current_q_no, b, outcome, target_cost) ==
    Then(shares_for_cost(current_q_yes, current_q_no, b, outcome, target_cost),
         LAMBDA shares :
    Then(cost_function(current_q_yes, current_q_no, b), LAMBDA cost_before :
    Then(IF outcome THEN cost_function(current_q_yes + shares, current_q_no, b)
                    ELSE cost_function(current_q_yes, current_q_no + shares, b),
         LAMBDA cost_after :
    IF cost_after < cost_before THEN Err("UnderflowError")
    ELSE Ok(<<cost_after - cost_before, shares>>))))

\* Proceeds taken at the current marginal price of the side sold, not as a
\* difference of the cost function.
calculate_sell_proceeds_at_price(current_q_yes, current_q_no, b, outcome, shares_to_sell) ==
    IF (IF outcome THEN current_q_yes ELSE current_q_no) < shares_to_sell
    THEN Err("InsufficientShares")
    ELSE
    Then(IF outcome THEN calculate_yes_price(current_q_yes, current_q_no, b)
                    ELSE calculate_no_price(current_q_yes, current_q_no, b),
         LAMBDA price :
    fixed_mul(shares_to_sell, price))

calculate_sell_proceeds(current_q_yes, current_q_no, b, outcome, shares_to_sell) ==
    IF (IF outcome THEN current_q_yes ELSE current_q_no) < shares_to_sell
    THEN Err("InsufficientShares")
    ELSE
    Then(cost_function(current_q_yes, current_q_no, b), LAMBDA cost_before :
    Then(IF outcome THEN cost_function(current_q_yes - shares_to_sell, current_q_no, b)
                    ELSE cost_function(current_q_yes, current_q_no - shares_to_sell, b),
         LAMBDA cost_after :
    IF cost_before < cost_after THEN Err("UnderflowError")
    ELSE Ok(cost_before - cost_after)))

\* ------------------------------------------------------------------------
\* math/bounded_loss.rs
\* ------------------------------------------------------------------------
calculate_max_loss(b_parameter) == Ok((b_parameter * LN_2) \div PRECISION)

\* The check with a strict comparison: a loss equal to the maximum fails.
verify_bounded_loss_strict(initial_liquidity, current_liquidity, b_parameter) ==
    LET actual_loss == IF initial_liquidity > current_liquidity
                       THEN initial_liquidity - current_liquidity
                       ELSE 0
        max_allowed_loss == calculate_max_loss(b_parameter)
    IN  IF ~IsOk(max_allowed_loss) THEN max_allowed_loss
        ELSE IF actual_loss < max_allowed_loss.v THEN Ok(0)
        ELSE Err("BoundedLossExceeded")

verify_bounded_loss(initial_liquidity, current_liquidity, b_parameter) ==
    LET actual_loss == IF initial_liquidity > current_liquidity
                       THEN initial_liquidity - current_liquidity
                       ELSE 0
        max_allowed_loss == calculate_max_loss(b_parameter)
    IN  IF ~IsOk(max_allowed_loss) THEN max_allowed_loss
        ELSE IF actual_loss <= max_allowed_loss.v THEN Ok(0)
        ELSE Err("BoundedLossExceeded")

\* ------------------------------------------------------------------------
\* utils/fees.rs
\* ------------------------------------------------------------------------
\* checked_div(total_fee_bps) is None when the three rates sum to zero.
calculate_fees_accurate(amount, protocol_fee_bps, resolver_fee_bps, lp_fee_bps) ==
    LET total_fee_bps == protocol_fee_bps + resolver_fee_bps + lp_fee_bps
        total_fees == (amount * total_fee_bps) \div 10000
    IN  IF total_fee_bps = 0 THEN Err("DivisionByZero")
        ELSE LET protocol_fee == (total_fees * protocol_fee_bps) \div total_fee_bps
                 resolver_fee == (total_fees * resolver_fee_bps) \div total_fee_bps
             IN  IF total_fees < protocol_fee \/ total_fees - protocol_fee < resolver_fee
                 THEN Err("UnderflowError")
                 ELSE Ok([protocol_fee |-> protocol_fee,
                          resolver_fee |-> resolver_fee,
                          lp_fee |-> total_fees - protocol_fee - resolver_fee,
                          total_fees |-> total_fees])

\* ------------------------------------------------------------------------
\* Accounts, signers and the bounded inputs of the instructions
\* ------------------------------------------------------------------------
Signers == {"admin", "backend", "creator", "user"}

\* The signers that try the admin's and the backend's instructions: the
\* authority itself and one that is not.
Admins == {"admin", "user"}

Backends == {"backend", "user"}

\* Pubkey::default()
NoKey == "default"

\* Option<i64> / Option<u32> arguments
None == [some |-> FALSE, v |-> 0]

Some(x) == [some |-> TRUE, v |-> x]

\* Option<bool> outcomes: Some(true), Some(false), None
Outcomes == {"YES", "NO", "NONE"}

\* rent.minimum_balance(8 + MarketAccount::LEN): what create_market's `init`
\* deposits into the market account.
RentExemptMinimum == 1000

\* Clock: the instants the model observes are 0..MaxEarly and the same
\* instants one default dispute period (259_200 s) later.
MaxEarly == 1

Instants == (0 .. MaxEarly) \cup {259200 + k : k \in 0 .. MaxEarly}

\* Lamports an outside system transfer may add to the market account, and
\* the cap on the account's balance.
FundAmount == 60000

MaxLamports == 70000

BParams == {0, MIN_B - 1, MIN_B}

Liquidities == {0, 100000}

TargetCosts == {MIN_TRADE_AMOUNT - 1, MIN_TRADE_AMOUNT, 20000}

ShareAmounts == {0, 10000}

\* Direct calls of the library functions (the unit tests' way of calling
\* them): exponents from 0 to MaxBeyond past MAX_EXP; amounts from 0 to
\* MaxSmallAmount and around the minimum trade, with rates from 0 to 100%.
MaxBeyond == 3

Exponents == 0 .. (MAX_EXP + MaxBeyond)

MaxSmallAmount == 12

FeeAmounts == (0 .. MaxSmallAmount) \cup {9999, 10000, 50000}

FeeRates == {0, 1, 200, 300, 500, 3333, 10000}

ProposalTallies == {<<0, 0>>, <<7, 3>>, <<6999, 3001>>}

DisputeTallies == {<<0, 0>>, <<6, 4>>, <<5999, 4001>>}

\* update_global_config argument tuples: the defaults with no time limit
\* supplied, all rates and thresholds zero with a one-second resolution
\* delay, a fee sum above 100%, a threshold above 100%, a zero dispute
\* period and a negative resolution delay.
ConfigUpdates ==
    { [p |-> 300, r |-> 200, l |-> 500, pat |-> 7000, dst |-> 6000,
       delay |-> None, period |-> None],
      [p |-> 0, r |-> 0, l |-> 0, pat |-> 0, dst |-> 0,
       delay |-> Some(1), period |-> None],
      [p |-> 300, r |-> 200, l |-> 500, pat |-> 7000, dst |-> 6000,
       delay |-> Some(-1), period |-> None],
      [p |-> 5000, r |-> 3000, l |-> 3000, pat |-> 7000, dst |-> 6000,
       delay |-> None, period |-> None],
      [p |-> 300, r |-> 200, l |-> 500, pat |-> 10001, dst |-> 6000,
       delay |-> None, period |-> None],
      [p |-> 300, r |-> 200, l |-> 500, pat |-> 7000, dst |-> 6000,
       delay |-> None, period |-> Some(0)] }

\* ------------------------------------------------------------------------
\* State
\* ------------------------------------------------------------------------
VARIABLES
    config,       \* the GlobalConfig account
    market,       \* the MarketAccount (state "Uninitialized" before create_market)
    lamports,     \* lamports held by the market account
    positions,    \* the UserPosition account of each signer for this market
    vote_records, \* the VoteRecord accounts of this market
    now,          \* Clock::get()?.unix_timestamp
    last,         \* the last instruction committed on the market
    call          \* the last direct call of a library function, its result

vars == <<config, market, lamports, positions, vote_records, now, last, call>>

\* state/market.rs: MarketState
MarketStates == {"Proposed", "Approved", "Active", "Resolving", "Disputed",
                 "Finalized", "Cancelled"}

\* The market account before create_market has run.
NoMarket ==
    [state |-> "Uninitialized", creator |-> NoKey,
     b_parameter |-> 0, initial_liquidity |-> 0, current_liquidity |-> 0,
     shares_yes |-> 0, shares_no |-> 0, total_volume |-> 0,
     created_at |-> 0, approved_at |-> 0, activated_at |-> 0,
     resolution_proposed_at |-> 0, resolved_at |-> 0, finalized_at |-> 0,
     resolver |-> NoKey, proposed_outcome |-> "NONE", final_outcome |-> "NONE",
     ipfs_evidence_hash |-> "none",
     dispute_initiated_at |-> 0, dispute_initiator |-> NoKey,
     accumulated_protocol_fees |-> 0, accumulated_resolver_fees |-> 0,
     accumulated_lp_fees |-> 0,
     proposal_likes |-> 0, proposal_dislikes |-> 0, proposal_total_votes |-> 0,
     dispute_agree |-> 0, dispute_disagree |-> 0, dispute_total_votes |-> 0,
     was_disputed |-> FALSE, is_cancelled |-> FALSE, cancelled_at |-> None,
     is_locked |-> FALSE]

\* The UserPosition account before buy_shares has created it.
NoPosition ==
    [exists |-> FALSE, shares_yes |-> 0, shares_no |-> 0, total_invested |-> 0,
     trades_count |-> 0, has_claimed |-> FALSE, claimed_amount |-> 0]

\* What `last` records of the last committed instruction on the market
\* (the instructions that take no market account leave it alone): its name,
\* its signer, whether it evaluated verify_bounded_loss (and the verifier
\* passed), and the size of the trade it priced (0 when it priced none).
Done(op, caller, r) ==
    [op |-> op, caller |-> caller, verified |-> r.verified, size |-> r.size]

\* initialize_global_config signed by "admin" with backend_authority
\* "backend" has run; no market has been created.
Init ==
    /\ config = [admin |-> "admin", backend_authority |-> "backend",
                 protocol_fee_bps |-> 300, resolver_reward_bps |-> 200,
                 liquidity_provider_fee_bps |-> 500,
                 proposal_approval_threshold |-> 7000,
                 dispute_success_threshold |-> 6000,
                 min_resolution_delay |-> 86400, dispute_period |-> 259200,
                 min_resolver_reputation |-> 8000, is_paused |-> FALSE]
    /\ market = NoMarket
    /\ lamports = 0
    /\ positions = [u \in Signers |-> NoPosition]
    /\ vote_records = {}
    /\ now = 0
    /\ last = [op |-> "none", caller |-> NoKey, verified |-> FALSE, size |-> 0]
    /\ call = [fn |-> "none", args |-> <<>>, result |-> Ok(0)]

\* ------------------------------------------------------------------------
\* Transactions
\* ------------------------------------------------------------------------
\* The result of an instruction that fails with code e: the accounts as
\* they are.  `transfers` lists, for each lamport transfer the handler makes
\* in program order, whether the market's lock was held at that point.
Rejected(e) ==
    [err |-> e, config |-> config, market |-> market, lamports |-> lamports,
     positions |-> positions, vote_records |-> vote_records,
     verified |-> FALSE, size |-> 0, transfers |-> <<>>]

\* The result of an instruction that succeeds, before its writes.
Accepted == Rejected("Ok")

\* `let v = e?;` in a handler, followed by F: an Err ends the instruction.
Try(r, F(_)) == IF IsOk(r) THEN F(r.v) ELSE Rejected(r.err)

ConfigInstructions == {"update_global_config", "emergency_pause"}

\* The runtime commits the accounts an instruction returns only when it
\* returns Ok.
Commit(op, caller, r) ==
    IF r.err = "Ok"
    THEN /\ config' = r.config
         /\ market' = r.market
         /\ lamports' = r.lamports
         /\ positions' = r.positions
         /\ vote_records' = r.vote_records
         /\ last' = IF op \in ConfigInstructions THEN last ELSE Done(op, caller, r)
         /\ UNCHANGED <<now, call>>
    ELSE UNCHANGED vars

Exists(m) == m.state # "Uninitialized"

\* ------------------------------------------------------------------------
\* state/market.rs
\* ------------------------------------------------------------------------
can_transition_to(state, new_state) ==
    \/ state = "Proposed" /\ new_state = "Approved"
    \/ state = "Approved" /\ new_state = "Active"
    \/ state = "Active" /\ new_state = "Resolving"
    \/ state = "Resolving" /\ new_state = "Disputed"
    \/ state = "Resolving" /\ new_state = "Finalized"
    \/ state = "Disputed" /\ new_state = "Finalized"

dispute_succeeded(m, threshold_bps) ==
    IF m.dispute_total_votes = 0 THEN FALSE
    ELSE (m.dispute_agree * 10000) \div m.dispute_total_votes >= threshold_bps

\* market.transition_state(new_state)?: the validated state change the
\* instructions call; the wrapper itself is not part of the sources.
transition_state(m, new_state) ==
    IF can_transition_to(m.state, new_state)
    THEN [err |-> "Ok", market |-> [m EXCEPT !.state = new_state]]
    ELSE [err |-> "InvalidStateTransition", market |-> m]

\* ------------------------------------------------------------------------
\* instructions/update_global_config.rs, instructions/emergency_pause.rs
\* ------------------------------------------------------------------------
\* update_global_config without its fee-sum requirement.
update_global_config_any_fees(admin, a) ==
    IF config.admin # admin THEN Rejected("Unauthorized")
    ELSE IF ~(a.pat <= 10000) THEN Rejected("InvalidThreshold")
    ELSE IF ~(a.dst <= 10000) THEN Rejected("InvalidThreshold")
    ELSE IF a.delay.some /\ ~(a.delay.v > 0) THEN Rejected("InvalidTimeLimit")
    ELSE IF a.period.some /\ ~(a.period.v > 0) THEN Rejected("InvalidTimeLimit")
    ELSE [Accepted EXCEPT
            !.config = [config EXCEPT
                          !.protocol_fee_bps = a.p,
                          !.resolver_reward_bps = a.r,
                          !.liquidity_provider_fee_bps = a.l,
                          !.proposal_approval_threshold = a.pat,
                          !.dispute_success_threshold = a.dst,
                          !.min_resolution_delay =
                              IF a.delay.some THEN a.delay.v ELSE @,
                          !.dispute_period =
                              IF a.period.some THEN a.period.v ELSE @]]

\* update_global_config that writes the fee rates and the time limits but
\* leaves the two thresholds as they were.
update_global_config_keeps_thresholds(admin, a) ==
    IF config.admin # admin THEN Rejected("Unauthorized")
    ELSE IF ~(a.p + a.r + a.l <= 10000) THEN Rejected("InvalidFeeStructure")
    ELSE IF ~(a.pat <= 10000) THEN Rejected("InvalidThreshold")
    ELSE IF ~(a.dst <= 10000) THEN Rejected("InvalidThreshold")
    ELSE IF a.delay.some /\ ~(a.delay.v > 0) THEN Rejected("InvalidTimeLimit")
    ELSE IF a.period.some /\ ~(a.period.v > 0) THEN Rejected("InvalidTimeLimit")
    ELSE [Accepted EXCEPT
            !.config = [config EXCEPT
                          !.protocol_fee_bps = a.p,
                          !.resolver_reward_bps = a.r,
                          !.liquidity_provider_fee_bps = a.l,
                          !.min_resolution_delay =
                              IF a.delay.some THEN a.delay.v ELSE @,
                          !.dispute_period =
                              IF a.period.some THEN a.period.v ELSE @]]

update_global_config(admin, a) ==
    LET total_fee == a.p + a.r + a.l
    IN  IF config.admin # admin THEN Rejected("Unauthorized")
        ELSE IF ~(total_fee <= 10000) THEN Rejected("InvalidFeeStructure")
        ELSE IF ~(a.pat <= 10000) THEN Rejected("InvalidThreshold")
        ELSE IF ~(a.dst <= 10000) THEN Rejected("InvalidThreshold")
        ELSE IF a.delay.some /\ ~(a.delay.v > 0) THEN Rejected("InvalidTimeLimit")
        ELSE IF a.period.some /\ ~(a.period.v > 0) THEN Rejected("InvalidTimeLimit")
        ELSE [Accepted EXCEPT
                !.config = [config EXCEPT
                              !.protocol_fee_bps = a.p,
                              !.resolver_reward_bps = a.r,
                              !.liquidity_provider_fee_bps = a.l,
                              !.proposal_approval_threshold = a.pat,
                              !.dispute_success_threshold = a.dst,
                              !.min_resolution_delay =
                                  IF a.delay.some THEN a.delay.v ELSE @,
                              !.dispute_period =
                                  IF a.period.some THEN a.period.v ELSE @]]

UpdateGlobalConfig ==
    \E admin \in Admins, a \in ConfigUpdates :
        Commit("update_global_config", admin, update_global_config(admin, a))

\* emergency_pause without the admin constraint on its accounts.
emergency_pause_by_anyone(admin) ==
    [Accepted EXCEPT !.config = [config EXCEPT !.is_paused = ~config.is_paused]]

emergency_pause(admin) ==
    IF config.admin # admin THEN Rejected("Unauthorized")
    ELSE [Accepted EXCEPT !.config = [config EXCEPT !.is_paused = ~config.is_paused]]

EmergencyPause ==
    \E admin \in Admins : Commit("emergency_pause", admin, emergency_pause(admin))

\* ------------------------------------------------------------------------
\* instructions/create_market.rs
\* ------------------------------------------------------------------------
Creators == {"creator"}

\* `init` fails when the market account already exists; it deposits the
\* rent-exempt minimum.  The handler moves no lamports for initial_liquidity.
create_market(creator, b_parameter, initial_liquidity) ==
    IF Exists(market) THEN Rejected("AccountAlreadyInUse")
    ELSE IF config.is_paused THEN Rejected("ProtocolPaused")
    ELSE IF ~(b_parameter > 0) THEN Rejected("InvalidBParameter")
    ELSE IF ~(initial_liquidity > 0) THEN Rejected("InvalidLiquidity")
    ELSE [Accepted EXCEPT
            !.lamports = RentExemptMinimum,
            !.market = [NoMarket EXCEPT
                          !.state = "Proposed",
                          !.creator = creator,
                          !.b_parameter = b_parameter,
                          !.initial_liquidity = initial_liquidity,
                          !.current_liquidity = initial_liquidity,
                          !.created_at = now,
                          !.ipfs_evidence_hash = "question"]]

CreateMarket ==
    \E creator \in Creators, b_parameter \in BParams, initial_liquidity \in Liquidities :
        Commit("create_market", creator,
               create_market(creator, b_parameter, initial_liquidity))

\* ------------------------------------------------------------------------
\* instructions/submit_proposal_vote.rs, instructions/submit_dispute_vote.rs
\* ------------------------------------------------------------------------
Voters == {"user"}

HasVoteRecord(user, vote_type) ==
    \E r \in vote_records : r.user = user /\ r.vote_type = vote_type

\* submit_vote with `init_if_needed` in place of `init`: an existing record
\* of the voter is written again.
submit_vote_init_if_needed(user, vote, vote_type, voting_state) ==
    IF ~Exists(market) THEN Rejected("AccountNotInitialized")
    ELSE IF market.state # voting_state THEN Rejected("InvalidStateForVoting")
    ELSE [Accepted EXCEPT
            !.vote_records =
                {r \in vote_records : ~(r.user = user /\ r.vote_type = vote_type)}
                    \cup {[user |-> user, vote_type |-> vote_type, vote |-> vote]}]

\* submit_vote with the pause requirement of the trading instructions.
submit_vote_unless_paused(user, vote, vote_type, voting_state) ==
    IF ~Exists(market) THEN Rejected("AccountNotInitialized")
    ELSE IF HasVoteRecord(user, vote_type) THEN Rejected("AccountAlreadyInUse")
    ELSE IF market.state # voting_state THEN Rejected("InvalidStateForVoting")
    ELSE IF config.is_paused THEN Rejected("ProtocolPaused")
    ELSE [Accepted EXCEPT
            !.vote_records = vote_records \cup
                {[user |-> user, vote_type |-> vote_type, vote |-> vote]}]

\* The VoteRecord PDA is created by `init`, which runs before the other
\* account constraints and fails when the record already exists.
submit_vote(user, vote, vote_type, voting_state) ==
    IF ~Exists(market) THEN Rejected("AccountNotInitialized")
    ELSE IF HasVoteRecord(user, vote_type) THEN Rejected("AccountAlreadyInUse")
    ELSE IF market.state # voting_state THEN Rejected("InvalidStateForVoting")
    ELSE [Accepted EXCEPT
            !.vote_records = vote_records \cup
                {[user |-> user, vote_type |-> vote_type, vote |-> vote]}]

submit_proposal_vote(user, vote) == submit_vote(user, vote, "Proposal", "Proposed")

submit_dispute_vote(user, vote) == submit_vote(user, vote, "Dispute", "Disputed")

SubmitProposalVote ==
    \E user \in Voters, vote \in BOOLEAN :
        Commit("submit_proposal_vote", user, submit_proposal_vote(user, vote))

SubmitDisputeVote ==
    \E user \in Voters, vote \in BOOLEAN :
        Commit("submit_dispute_vote", user, submit_dispute_vote(user, vote))

\* ------------------------------------------------------------------------
\* instructions/aggregate_proposal_votes.rs
\* ------------------------------------------------------------------------
\* Writes the two tallies (never proposal_total_votes) and approves when
\* likes_bps >= threshold, where likes_bps is 0 for an empty tally.
aggregate_proposal_votes(backend_authority, final_likes, final_dislikes) ==
    LET total_votes == final_likes + final_dislikes
        likes_bps == IF total_votes > 0
                     THEN (final_likes * 10000) \div total_votes
                     ELSE 0
        approved == likes_bps >= config.proposal_approval_threshold
    IN  IF ~Exists(market) THEN Rejected("AccountNotInitialized")
        ELSE IF market.state # "Proposed" THEN Rejected("InvalidStateForVoting")
        ELSE IF backend_authority # config.backend_authority THEN Rejected("Unauthorized")
        ELSE [Accepted EXCEPT
                !.market = [market EXCEPT
                              !.proposal_likes = final_likes,
                              !.proposal_dislikes = final_dislikes,
                              !.state = IF approved THEN "Approved" ELSE @,
                              !.approved_at = IF approved THEN now ELSE @]]

AggregateProposalVotes ==
    \E backend_authority \in Backends, t \in ProposalTallies :
        Commit("aggregate_proposal_votes", backend_authority,
               aggregate_proposal_votes(backend_authority, t[1], t[2]))

\* ------------------------------------------------------------------------
\* instructions/approve_proposal.rs
\* ------------------------------------------------------------------------
approve_proposal(admin) ==
    LET approval_bps ==
            IF market.proposal_total_votes = 0 THEN 0
            ELSE ((market.proposal_likes * 10000)
                      \div market.proposal_total_votes) % 65536
    IN  IF ~Exists(market) THEN Rejected("AccountNotInitialized")
        ELSE IF config.admin # admin THEN Rejected("Unauthorized")
        ELSE IF market.state # "Proposed" THEN Rejected("InvalidStateTransition")
        ELSE IF ~(market.proposal_total_votes > 0) THEN Rejected("NoVotesRecorded")
        ELSE IF ~(approval_bps >= config.proposal_approval_threshold)
             THEN Rejected("InsufficientVotes")
        ELSE [Accepted EXCEPT
                !.market = [market EXCEPT !.state = "Approved",
                                          !.approved_at = now]]

ApproveProposal ==
    \E admin \in Admins : Commit("approve_proposal", admin, approve_proposal(admin))

\* ------------------------------------------------------------------------
\* instructions/activate_market.rs
\* ------------------------------------------------------------------------
\* activate_market without its authority requirement.
activate_market_by_anyone(authority) ==
    IF ~Exists(market) THEN Rejected("AccountNotInitialized")
    ELSE IF market.state # "Approved" THEN Rejected("InvalidStateTransition")
    ELSE IF ~(market.current_liquidity >= market.initial_liquidity)
         THEN Rejected("InsufficientLiquidity")
    ELSE [Accepted EXCEPT
            !.market = [market EXCEPT !.state = "Active",
                                      !.activated_at = now]]

activate_market(authority) ==
    LET is_admin == authority = config.admin
        is_creator == authority = market.creator
    IN  IF ~Exists(market) THEN Rejected("AccountNotInitialized")
        ELSE IF ~(is_admin \/ is_creator) THEN Rejected("Unauthorized")
        ELSE IF market.state # "Approved" THEN Rejected("InvalidStateTransition")
        ELSE IF ~(market.current_liquidity >= market.initial_liquidity)
             THEN Rejected("InsufficientLiquidity")
        ELSE [Accepted EXCEPT
                !.market = [market EXCEPT !.state = "Active",
                                          !.activated_at = now]]

ActivateMarket ==
    \E authority \in Signers :
        Commit("activate_market", authority, activate_market(authority))

\* ------------------------------------------------------------------------
\* instructions/cancel_market.rs
\* ------------------------------------------------------------------------
\* cancel_market without the admin constraint on its accounts.
cancel_market_by_anyone(admin) ==
    IF ~Exists(market) THEN Rejected("AccountNotInitialized")
    ELSE IF ~(market.state # "Cancelled") THEN Rejected("MarketAlreadyCancelled")
    ELSE IF ~(market.state = "Proposed" \/ market.state = "Approved")
         THEN Rejected("CannotCancelMarket")
    ELSE [Accepted EXCEPT
            !.market = [market EXCEPT !.state = "Cancelled",
                                      !.cancelled_at = Some(now)]]

\* cancel_market without its two state requirements.
cancel_market_any_state(admin) ==
    IF ~Exists(market) THEN Rejected("AccountNotInitialized")
    ELSE IF config.admin # admin THEN Rejected("Unauthorized")
    ELSE [Accepted EXCEPT
            !.market = [market EXCEPT !.state = "Cancelled",
                                      !.cancelled_at = Some(now)]]

cancel_market(admin) ==
    IF ~Exists(market) THEN Rejected("AccountNotInitialized")
    ELSE IF config.admin # admin THEN Rejected("Unauthorized")
    ELSE IF ~(market.state # "Cancelled") THEN Rejected("MarketAlreadyCancelled")
    ELSE IF ~(market.state = "Proposed" \/ market.state = "Approved")
         THEN Rejected("CannotCancelMarket")
    ELSE [Accepted EXCEPT
            !.market = [market EXCEPT !.state = "Cancelled",
                                      !.cancelled_at = Some(now)]]

CancelMarket ==
    \E admin \in Admins : Commit("cancel_market", admin, cancel_market(admin))

\* ------------------------------------------------------------------------
\* utils/rent.rs and the market lock
\* ------------------------------------------------------------------------
\* The balance `from` is left with, or the error.
transfer_with_rent_check(from_lamports, amount) ==
    IF from_lamports < amount THEN Err("InsufficientFunds")
    ELSE IF ~(from_lamports - amount >= RentExemptMinimum)
         THEN Err("WouldBreakRentExemption")
    ELSE Ok(from_lamports - amount)

\* The manual lamport transfer out of the market account that claim_winnings
\* calls ("transfer with rent check"); its body is not part of the sources.
transfer_from_pda_with_data(from_lamports, amount) ==
    transfer_with_rent_check(from_lamports, amount)

\* market.lock()? and market.unlock(): the reentrancy guard the handlers
\* call around their transfers; the methods are not part of the sources.
lock(m) ==
    IF m.is_locked THEN [err |-> "MarketLocked", market |-> m]
    ELSE [err |-> "Ok", market |-> [m EXCEPT !.is_locked = TRUE]]

unlock(m) == [m EXCEPT !.is_locked = FALSE]

\* ------------------------------------------------------------------------
\* instructions/buy_shares.rs
\* ------------------------------------------------------------------------
Traders == {"user"}

\* The handler from the pricing on: shares for the target cost, the fee
\* split, the slippage check, the payment and the bookkeeping.
execute_buy(user, outcome, target_cost) ==
    Try(calculate_buy_cost(market.shares_yes, market.shares_no,
                           market.b_parameter, outcome, target_cost), LAMBDA buy :
    Let(buy[1], LAMBDA cost_before_fees :
    Let(buy[2], LAMBDA shares_bought :
    Try(calculate_fees_accurate(cost_before_fees,
            config.protocol_fee_bps, config.resolver_reward_bps,
            config.liquidity_provider_fee_bps), LAMBDA fees :
    Let(cost_before_fees + fees.total_fees, LAMBDA total_cost :
        IF ~(total_cost <= target_cost) THEN Rejected("SlippageExceeded")
        ELSE IF total_cost < fees.protocol_fee THEN Rejected("UnderflowError")
        ELSE [Accepted EXCEPT
                !.size = target_cost,
                !.transfers = <<market.is_locked, market.is_locked>>,
                !.lamports = @ + (total_cost - fees.protocol_fee),
                !.market =
                  [market EXCEPT
                     !.shares_yes = IF outcome THEN @ + shares_bought ELSE @,
                     !.shares_no = IF outcome THEN @ ELSE @ + shares_bought,
                     !.total_volume = @ + total_cost,
                     !.current_liquidity = @ + fees.resolver_fee + fees.lp_fee,
                     !.accumulated_resolver_fees = @ + fees.resolver_fee,
                     !.accumulated_lp_fees = @ + fees.lp_fee],
                !.positions[user] =
                  [positions[user] EXCEPT
                     !.exists = TRUE,
                     !.shares_yes = IF outcome THEN @ + shares_bought ELSE @,
                     !.shares_no = IF outcome THEN @ ELSE @ + shares_bought,
                     !.total_invested = @ + total_cost,
                     !.trades_count = @ + 1]])))))

\* buy_shares without its pause requirement.
buy_shares_while_paused(user, outcome, target_cost) ==
    IF ~Exists(market) THEN Rejected("AccountNotInitialized")
    ELSE IF market.state # "Active" THEN Rejected("InvalidMarketState")
    ELSE IF ~(target_cost >= MIN_TRADE_AMOUNT) THEN Rejected("TradeTooSmall")
    ELSE execute_buy(user, outcome, target_cost)

\* BuyShares accounts (the market must be Active; the position is created
\* if needed) and the handler's requirements.
buy_shares(user, outcome, target_cost) ==
    IF ~Exists(market) THEN Rejected("AccountNotInitialized")
    ELSE IF market.state # "Active" THEN Rejected("InvalidMarketState")
    ELSE IF config.is_paused THEN Rejected("ProtocolPaused")
    ELSE IF ~(target_cost >= MIN_TRADE_AMOUNT) THEN Rejected("TradeTooSmall")
    ELSE execute_buy(user, outcome, target_cost)

BuyShares ==
    \E user \in Traders, outcome \in BOOLEAN, target_cost \in TargetCosts :
        Commit("buy_shares", user, buy_shares(user, outcome, target_cost))

\* ------------------------------------------------------------------------
\* instructions/sell_shares.rs
\* ------------------------------------------------------------------------
MinProceeds == {0}

\* SellShares accounts (the position account must exist; the market must be
\* Active) and the handler.
sell_shares(user, outcome, shares_to_sell, min_proceeds) ==
    IF ~Exists(market) \/ ~positions[user].exists
    THEN Rejected("AccountNotInitialized")
    ELSE IF market.state # "Active" THEN Rejected("InvalidMarketState")
    ELSE IF config.is_paused THEN Rejected("ProtocolPaused")
    ELSE IF ~((IF outcome THEN positions[user].shares_yes
                          ELSE positions[user].shares_no) >= shares_to_sell)
         THEN Rejected("InsufficientShares")
    ELSE
    Try(calculate_sell_proceeds(market.shares_yes, market.shares_no,
            market.b_parameter, outcome, shares_to_sell), LAMBDA proceeds_before_fees :
    IF ~(proceeds_before_fees >= MIN_TRADE_AMOUNT) THEN Rejected("TradeTooSmall")
    ELSE
    Try(calculate_fees_accurate(proceeds_before_fees,
            config.protocol_fee_bps, config.resolver_reward_bps,
            config.liquidity_provider_fee_bps), LAMBDA fees :
    IF proceeds_before_fees < fees.total_fees THEN Rejected("UnderflowError")
    ELSE
    Let(proceeds_before_fees - fees.total_fees, LAMBDA net_proceeds :
    IF ~(net_proceeds >= min_proceeds) THEN Rejected("SlippageExceeded")
    ELSE
    Let(net_proceeds + fees.protocol_fee, LAMBDA total_payout :
    IF ~(market.current_liquidity >= total_payout)
    THEN Rejected("InsufficientLiquidity")
    ELSE IF lock(market).err # "Ok" THEN Rejected(lock(market).err)
    ELSE
    Try(transfer_with_rent_check(lamports, net_proceeds), LAMBDA after_user :
    Try(transfer_with_rent_check(after_user, fees.protocol_fee), LAMBDA after_wallet :
        [Accepted EXCEPT
           !.size = proceeds_before_fees,
           !.transfers = <<lock(market).market.is_locked,
                           lock(market).market.is_locked>>,
           !.lamports = after_wallet,
           !.market =
             unlock([market EXCEPT
                !.shares_yes = IF outcome THEN @ - shares_to_sell ELSE @,
                !.shares_no = IF outcome THEN @ ELSE @ - shares_to_sell,
                !.total_volume = @ + proceeds_before_fees,
                !.current_liquidity = @ - total_payout,
                !.accumulated_resolver_fees = @ + fees.resolver_fee,
                !.accumulated_lp_fees = @ + fees.lp_fee]),
           !.positions[user] =
             [positions[user] EXCEPT
                !.shares_yes = IF outcome THEN @ - shares_to_sell ELSE @,
                !.shares_no = IF outcome THEN @ ELSE @ - shares_to_sell,
                !.trades_count = @ + 1]]))))))

SellShares ==
    \E user \in Traders, outcome \in BOOLEAN, shares_to_sell \in ShareAmounts,
       min_proceeds \in MinProceeds :
        Commit("sell_shares", user,
               sell_shares(user, outcome, shares_to_sell, min_proceeds))

\* ------------------------------------------------------------------------
\* instructions/resolve_market.rs
\* ------------------------------------------------------------------------
TenYears == 86400 * 365 * 10

Resolvers == {"user"}

\* resolve_market that may run again on a market under resolution: neither
\* the Active requirement nor the AlreadyResolved requirement, the state
\* assigned directly.
resolve_market_again(resolver, proposed_outcome) ==
    IF ~Exists(market) THEN Rejected("AccountNotInitialized")
    ELSE IF market.state \notin {"Active", "Resolving"}
         THEN Rejected("InvalidMarketState")
    ELSE IF ~(now >= market.created_at) THEN Rejected("InvalidTimestamp")
    ELSE IF ~(now <= market.created_at + TenYears) THEN Rejected("InvalidTimestamp")
    ELSE IF ~(now > market.activated_at) THEN Rejected("InvalidTimestamp")
    ELSE [Accepted EXCEPT
            !.market = [market EXCEPT
                          !.proposed_outcome = IF proposed_outcome THEN "YES" ELSE "NO",
                          !.resolver = resolver,
                          !.ipfs_evidence_hash = "evidence",
                          !.resolution_proposed_at = now,
                          !.state = "Resolving"]]

resolve_market(resolver, proposed_outcome) ==
    LET moved == transition_state(
                     [market EXCEPT
                        !.proposed_outcome = IF proposed_outcome THEN "YES" ELSE "NO",
                        !.resolver = resolver,
                        !.ipfs_evidence_hash = "evidence",
                        !.resolution_proposed_at = now],
                     "Resolving")
    IN  IF ~Exists(market) THEN Rejected("AccountNotInitialized")
        ELSE IF market.state # "Active" THEN Rejected("InvalidMarketState")
        ELSE IF market.proposed_outcome # "NONE" THEN Rejected("AlreadyResolved")
        ELSE IF ~(now >= market.created_at) THEN Rejected("InvalidTimestamp")
        ELSE IF ~(now <= market.created_at + TenYears) THEN Rejected("InvalidTimestamp")
        ELSE IF ~(now > market.activated_at) THEN Rejected("InvalidTimestamp")
        ELSE IF moved.err # "Ok" THEN Rejected(moved.err)
        ELSE [Accepted EXCEPT !.market = moved.market]

ResolveMarket ==
    \E resolver \in Resolvers, proposed_outcome \in BOOLEAN :
        Commit("resolve_market", resolver, resolve_market(resolver, proposed_outcome))

\* ------------------------------------------------------------------------
\* instructions/initiate_dispute.rs
\* ------------------------------------------------------------------------
Initiators == {"user"}

\* initiate_dispute without its dispute-window requirement.
initiate_dispute_any_time(initiator) ==
    IF ~Exists(market) THEN Rejected("AccountNotInitialized")
    ELSE IF market.state # "Resolving" THEN Rejected("InvalidMarketState")
    ELSE IF ~(now > market.resolution_proposed_at) THEN Rejected("InvalidTimestamp")
    ELSE [Accepted EXCEPT
            !.market = [market EXCEPT
                          !.dispute_initiator = initiator,
                          !.dispute_initiated_at = now,
                          !.dispute_agree = 0,
                          !.dispute_disagree = 0,
                          !.dispute_total_votes = 0,
                          !.state = "Disputed"]]

initiate_dispute(initiator) ==
    LET dispute_deadline == market.resolution_proposed_at + config.dispute_period
    IN  IF ~Exists(market) THEN Rejected("AccountNotInitialized")
        ELSE IF market.state # "Resolving" THEN Rejected("InvalidMarketState")
        ELSE IF ~(now > market.resolution_proposed_at) THEN Rejected("InvalidTimestamp")
        ELSE IF ~(now < dispute_deadline) THEN Rejected("DisputePeriodEnded")
        ELSE [Accepted EXCEPT
                !.market = [market EXCEPT
                              !.dispute_initiator = initiator,
                              !.dispute_initiated_at = now,
                              !.dispute_agree = 0,
                              !.dispute_disagree = 0,
                              !.dispute_total_votes = 0,
                              !.state = "Disputed"]]

InitiateDispute ==
    \E initiator \in Initiators :
        Commit("initiate_dispute", initiator, initiate_dispute(initiator))

\* ------------------------------------------------------------------------
\* instructions/aggregate_dispute_votes.rs
\* ------------------------------------------------------------------------
\* Records the tallies, then assigns the state directly: Resolving when the
\* dispute succeeded, Finalized (with resolved_at) when it did not.  The
\* handler neither calls verify_bounded_loss nor writes final_outcome or
\* finalized_at.  (Account addressing is not modelled: the GlobalConfig is
\* the account every instruction is handed, although this struct derives its
\* address from the seed "global_config" and the others from "global-config".)
aggregate_dispute_votes(backend_authority, final_agrees, final_disagrees) ==
    LET recorded == [market EXCEPT
                       !.dispute_agree = final_agrees,
                       !.dispute_disagree = final_disagrees,
                       !.dispute_total_votes = final_agrees + final_disagrees]
        succeeded == dispute_succeeded(recorded, config.dispute_success_threshold)
    IN  IF ~Exists(market) THEN Rejected("AccountNotInitialized")
        ELSE IF market.state # "Disputed" THEN Rejected("InvalidStateForVoting")
        ELSE IF backend_authority # config.backend_authority THEN Rejected("Unauthorized")
        ELSE [Accepted EXCEPT
                !.market = IF succeeded
                           THEN [recorded EXCEPT !.state = "Resolving",
                                                 !.was_disputed = TRUE]
                           ELSE [recorded EXCEPT !.state = "Finalized",
                                                 !.resolved_at = now,
                                                 !.was_disputed = TRUE]]

AggregateDisputeVotes ==
    \E backend_authority \in Backends, t \in DisputeTallies :
        Commit("aggregate_dispute_votes", backend_authority,
               aggregate_dispute_votes(backend_authority, t[1], t[2]))

\* ------------------------------------------------------------------------
\* instructions/finalize_market.rs
\* ------------------------------------------------------------------------
FinalizeArgs ==
    {<<None, None>>, <<Some(6), None>>}
        \cup {<<Some(t[1]), Some(t[2])>> : t \in DisputeTallies}

flip(outcome) ==
    IF outcome = "YES" THEN "NO" ELSE IF outcome = "NO" THEN "YES" ELSE "NONE"

finalize_market(backend_authority, dispute_agree, dispute_disagree) ==
    LET current_time == now
        was_disputed == market.state = "Disputed"
        agree == dispute_agree.v
        disagree == dispute_disagree.v
        total == agree + disagree
        agree_rate_bps == (agree * 10000) \div total
        dispute_deadline == market.resolution_proposed_at + config.dispute_period
        tallied == IF was_disputed
                   THEN [market EXCEPT !.dispute_agree = agree,
                                       !.dispute_disagree = disagree,
                                       !.dispute_total_votes = total]
                   ELSE market
        final_outcome == IF was_disputed
                            /\ agree_rate_bps >= config.dispute_success_threshold
                         THEN flip(market.proposed_outcome)
                         ELSE market.proposed_outcome
        loss == verify_bounded_loss(market.initial_liquidity,
                                    market.current_liquidity, market.b_parameter)
        moved == transition_state([tallied EXCEPT !.final_outcome = final_outcome,
                                                  !.was_disputed = was_disputed,
                                                  !.finalized_at = current_time],
                                  "Finalized")
    IN  IF ~Exists(market) THEN Rejected("AccountNotInitialized")
        ELSE IF ~(market.state = "Resolving" \/ market.state = "Disputed")
             THEN Rejected("InvalidMarketState")
        ELSE IF backend_authority # config.backend_authority THEN Rejected("Unauthorized")
        ELSE IF ~(current_time >= market.created_at) THEN Rejected("InvalidTimestamp")
        ELSE IF ~(current_time <= market.created_at + TenYears)
             THEN Rejected("InvalidTimestamp")
        ELSE IF ~(current_time > market.resolution_proposed_at)
             THEN Rejected("InvalidTimestamp")
        ELSE IF was_disputed /\ ~(dispute_agree.some /\ dispute_disagree.some)
             THEN Rejected("NoVotesRecorded")
        ELSE IF was_disputed /\ ~(total > 0) THEN Rejected("NoVotesRecorded")
        ELSE IF ~was_disputed /\ ~(current_time >= dispute_deadline)
             THEN Rejected("DisputePeriodNotEnded")
        ELSE IF ~IsOk(loss) THEN Rejected(loss.err)
        ELSE IF moved.err # "Ok" THEN Rejected(moved.err)
        ELSE [Accepted EXCEPT !.market = moved.market, !.verified = TRUE]

FinalizeMarket ==
    \E backend_authority \in Backends, a \in FinalizeArgs :
        Commit("finalize_market", backend_authority,
               finalize_market(backend_authority, a[1], a[2]))

\* ------------------------------------------------------------------------
\* instructions/claim_winnings.rs
\* ------------------------------------------------------------------------
\* ClaimWinnings accounts (the position account must exist, the market be
\* Finalized, the position unclaimed, the resolver account the market's
\* resolver) and the handler.
claim_winnings(user, resolver) ==
    LET pos == positions[user]
        yes == market.final_outcome = "YES"
        user_winning_shares == IF yes THEN pos.shares_yes ELSE pos.shares_no
        total_winning_shares == IF yes THEN market.shares_yes ELSE market.shares_no
        total_deposits == market.current_liquidity
        winnings == IF market.final_outcome = "NONE" THEN pos.total_invested
                    ELSE (user_winning_shares * total_deposits)
                             \div total_winning_shares
        needed == winnings + market.accumulated_resolver_fees
        locked == lock(market)
        paid == transfer_from_pda_with_data(lamports, winnings)
        paid_resolver == IF market.accumulated_resolver_fees > 0
                         THEN transfer_from_pda_with_data(paid.v,
                                  market.accumulated_resolver_fees)
                         ELSE paid
        claimed == [pos EXCEPT !.has_claimed = TRUE, !.claimed_amount = winnings]
    IN  IF ~Exists(market) \/ ~pos.exists THEN Rejected("AccountNotInitialized")
        ELSE IF market.state # "Finalized" THEN Rejected("InvalidMarketState")
        ELSE IF ~(~pos.has_claimed) THEN Rejected("AlreadyClaimed")
        ELSE IF resolver # market.resolver THEN Rejected("InvalidResolver")
        ELSE IF market.final_outcome = "NONE"
        THEN IF ~(pos.total_invested > 0) THEN Rejected("NoWinnings")
             ELSE IF ~(lamports >= winnings) THEN Rejected("InsufficientLiquidity")
             ELSE IF locked.err # "Ok" THEN Rejected(locked.err)
             ELSE IF ~IsOk(paid) THEN Rejected(paid.err)
             ELSE [Accepted EXCEPT !.lamports = paid.v,
                                   !.transfers = <<locked.market.is_locked>>,
                                   !.market = unlock(locked.market),
                                   !.positions[user] = claimed]
        ELSE IF ~(user_winning_shares > 0) THEN Rejected("NoWinnings")
        ELSE IF ~(total_winning_shares > 0) THEN Rejected("DivisionByZero")
        ELSE IF ~(winnings > 0) THEN Rejected("NoWinnings")
        ELSE IF ~(lamports >= needed) THEN Rejected("InsufficientLiquidity")
        ELSE IF locked.err # "Ok" THEN Rejected(locked.err)
        ELSE IF ~IsOk(paid) THEN Rejected(paid.err)
        ELSE IF ~IsOk(paid_resolver) THEN Rejected(paid_resolver.err)
        ELSE [Accepted EXCEPT
                !.lamports = paid_resolver.v,
                !.transfers =
                    IF market.accumulated_resolver_fees > 0
                    THEN <<locked.market.is_locked, locked.market.is_locked>>
                    ELSE <<locked.market.is_locked>>,
                !.market = unlock([locked.market EXCEPT
                                      !.accumulated_resolver_fees = 0]),
                !.positions[user] = claimed]

ClaimWinnings ==
    \E user \in Traders, resolver \in Signers :
        Commit("claim_winnings", user, claim_winnings(user, resolver))

\* ------------------------------------------------------------------------
\* instructions/withdraw_liquidity.rs
\* ------------------------------------------------------------------------
saturating_sub(a, b) == IF a >= b THEN a - b ELSE 0

\* withdraw_liquidity keeping the rent minimum only, without the 10,000
\* lamports margin.
withdraw_liquidity_rent_only(creator) ==
    LET safe_reserve == RentExemptMinimum
        withdrawable == saturating_sub(lamports, safe_reserve)
    IN  IF ~Exists(market) THEN Rejected("AccountNotInitialized")
        ELSE IF market.creator # creator THEN Rejected("Unauthorized")
        ELSE IF market.state # "Finalized" THEN Rejected("InvalidMarketState")
        ELSE IF ~(withdrawable > 0) THEN Rejected("InsufficientLiquidity")
        ELSE [Accepted EXCEPT
                !.lamports = lamports - withdrawable,
                !.transfers = <<market.is_locked>>,
                !.market = [market EXCEPT !.current_liquidity = 0,
                                          !.accumulated_lp_fees = 0]]

withdraw_liquidity(creator) ==
    LET safe_reserve == RentExemptMinimum + 10000
        withdrawable == saturating_sub(lamports, safe_reserve)
    IN  IF ~Exists(market) THEN Rejected("AccountNotInitialized")
        ELSE IF market.creator # creator THEN Rejected("Unauthorized")
        ELSE IF market.state # "Finalized" THEN Rejected("InvalidMarketState")
        ELSE IF ~(withdrawable > 0) THEN Rejected("InsufficientLiquidity")
        ELSE [Accepted EXCEPT
                !.lamports = lamports - withdrawable,
                !.transfers = <<market.is_locked>>,
                !.market = [market EXCEPT !.current_liquidity = 0,
                                          !.accumulated_lp_fees = 0]]

WithdrawLiquidity ==
    \E creator \in Signers :
        Commit("withdraw_liquidity", creator, withdraw_liquidity(creator))

\* ------------------------------------------------------------------------
\* Environment.  The clock advances: only resolve_market, initiate_dispute
\* and finalize_market compare it with a recorded timestamp, so the model
\* advances it while one of them can still run.  Anyone may send lamports to
\* the market account with a system transfer (tests/common/mod.rs).  No
\* instruction reads the account's balance before the market is Finalized
\* unless a position exists, so the model lets the transfer arrive once the
\* market is Finalized.
\* ------------------------------------------------------------------------
Tick ==
    \E t \in Instants :
        /\ market.state \in {"Active", "Resolving", "Disputed"}
        /\ t > now
        /\ now' = t
        /\ UNCHANGED <<config, market, lamports, positions, vote_records, last, call>>

airdrop ==
    /\ market.state = "Finalized"
    /\ lamports + FundAmount <= MaxLamports
    /\ lamports' = lamports + FundAmount
    /\ UNCHANGED <<config, market, positions, vote_records, now, last, call>>

Next ==
    \/ UpdateGlobalConfig
    \/ EmergencyPause
    \/ CreateMarket
    \/ SubmitProposalVote
    \/ AggregateProposalVotes
    \/ ApproveProposal
    \/ ActivateMarket
    \/ CancelMarket
    \/ BuyShares
    \/ SellShares
    \/ ResolveMarket
    \/ InitiateDispute
    \/ SubmitDisputeVote
    \/ AggregateDisputeVotes
    \/ FinalizeMarket
    \/ ClaimWinnings
    \/ WithdrawLiquidity
    \/ Tick
    \/ airdrop

Spec == Init /\ [][Next]_vars

\* The clock as it stands once more than ten years have passed since the
\* market was created.  From then on every comparison of the clock with a
\* recorded timestamp, a deadline or the ten-year limit keeps its value, so
\* the one instant stands for every later one.
TickLate ==
    /\ market.state \in {"Active", "Resolving", "Disputed"}
    /\ now <= market.created_at + TenYears
    /\ now' = market.created_at + TenYears + 1
    /\ UNCHANGED <<config, market, lamports, positions, vote_records, last, call>>

NextLate ==
    \/ Next
    \/ TickLate

SpecLate == Init /\ [][NextLate]_vars

\* ------------------------------------------------------------------------
\* The library functions called directly (math/lmsr.rs and utils/fees.rs
\* unit tests call them this way), on every input of the bounded sets; a
\* behaviour makes one call.
\* ------------------------------------------------------------------------
CallFixedExp ==
    /\ call.fn = "none"
    /\ \E x \in Exponents :
        /\ call' = [fn |-> "fixed_exp", args |-> <<x>>, result |-> fixed_exp(x)]
        /\ UNCHANGED <<config, market, lamports, positions, vote_records, now, last>>

CallCalculateFees ==
    /\ call.fn = "none"
    /\ \E amount \in FeeAmounts, protocol_fee_bps, resolver_fee_bps, lp_fee_bps \in FeeRates :
        /\ call' = [fn |-> "calculate_fees_accurate",
                    args |-> <<amount, protocol_fee_bps, resolver_fee_bps, lp_fee_bps>>,
                    result |-> calculate_fees_accurate(amount, protocol_fee_bps,
                                   resolver_fee_bps, lp_fee_bps)]
        /\ UNCHANGED <<config, market, lamports, positions, vote_records, now, last>>

\* The buy solver on a market with no shares outstanding (the only share
\* state a market is created with), for b just below, at and above MIN_B.
SolverBs == {MIN_B - 1, MIN_B, 2 * MIN_B}

CallCalculateBuyCost ==
    /\ call.fn = "none"
    /\ \E b \in SolverBs, outcome \in BOOLEAN, target_cost \in TargetCosts :
        /\ call' = [fn |-> "calculate_buy_cost",
                    args |-> <<0, 0, b, outcome, target_cost>>,
                    result |-> calculate_buy_cost(0, 0, b, outcome, target_cost)]
        /\ UNCHANGED <<config, market, lamports, positions, vote_records, now, last>>

\* The price functions on share states around the points where the fixed
\* point ratio (q_yes - q_no) / b changes, up to the states on which
\* fixed_exp fails.
PriceShares == {0, 1, 99, 100, 1000, 50000, 100000, 200000, 250000}

PriceBs == {MIN_B - 1, MIN_B, 2 * MIN_B}

CallCalculateYesPrice ==
    /\ call.fn = "none"
    /\ \E q_yes \in PriceShares, q_no \in PriceShares, b \in PriceBs :
        /\ call' = [fn |-> "calculate_yes_price", args |-> <<q_yes, q_no, b>>,
                    result |-> calculate_yes_price(q_yes, q_no, b)]
        /\ UNCHANGED <<config, market, lamports, positions, vote_records, now, last>>

CallCalculateNoPrice ==
    /\ call.fn = "none"
    /\ \E q_yes \in PriceShares, q_no \in PriceShares, b \in PriceBs :
        /\ call' = [fn |-> "calculate_no_price", args |-> <<q_yes, q_no, b>>,
                    result |-> calculate_no_price(q_yes, q_no, b)]
        /\ UNCHANGED <<config, market, lamports, positions, vote_records, now, last>>

\* A sale of shares of one side on the share states of the price calls.
CallCalculateSellProceeds ==
    /\ call.fn = "none"
    /\ \E q_yes \in PriceShares, q_no \in PriceShares, b \in PriceBs,
          outcome \in BOOLEAN, shares_to_sell \in PriceShares :
        /\ call' = [fn |-> "calculate_sell_proceeds",
                    args |-> <<q_yes, q_no, b, outcome, shares_to_sell>>,
                    result |-> calculate_sell_proceeds(q_yes, q_no, b, outcome,
                                                       shares_to_sell)]
        /\ UNCHANGED <<config, market, lamports, positions, vote_records, now, last>>

\* The loss check on liquidities at, just below and just above the bound of
\* each b (the unit tests use b = 1000 * PRECISION and initial = b).
LossBs == {0, MIN_B, 1000 * PRECISION}

LossLiquidities ==
    {0, 1, 1000 * PRECISION}
        \cup UNION {{l - 1, l, l + 1, 1000 * PRECISION - l} :
                        l \in {(b * LN_2) \div PRECISION : b \in LossBs \ {0}}}

CallVerifyBoundedLoss ==
    /\ call.fn = "none"
    /\ \E initial_liquidity \in LossLiquidities,
          current_liquidity \in LossLiquidities, b_parameter \in LossBs :
        /\ call' = [fn |-> "verify_bounded_loss",
                    args |-> <<initial_liquidity, current_liquidity, b_parameter>>,
                    result |-> verify_bounded_loss(initial_liquidity,
                                   current_liquidity, b_parameter)]
        /\ UNCHANGED <<config, market, lamports, positions, vote_records, now, last>>

NextMath ==
    \/ CallFixedExp
    \/ CallCalculateFees
    \/ CallCalculateBuyCost
    \/ CallCalculateYesPrice
    \/ CallCalculateNoPrice
    \/ CallCalculateSellProceeds
    \/ CallVerifyBoundedLoss

SpecMath == Init /\ [][NextMath]_vars

\* ------------------------------------------------------------------------
\* Properties of the lifecycle
\* ------------------------------------------------------------------------
\* C1: whenever a step changes the state of an existing market, the change
\* is one of Proposed->Approved, Approved->Active, Active->Resolving,
\* Resolving->Disputed, Resolving->Finalized, Disputed->Finalized,
\* Proposed->Cancelled, Approved->Cancelled.
C1_OnlyLifecycleEdges ==
    [][Exists(market) /\ market'.state # market.state
         => <<market.state, market'.state>> \in
                {<<"Proposed", "Approved">>, <<"Approved", "Active">>,
                 <<"Active", "Resolving">>, <<"Resolving", "Disputed">>,
                 <<"Resolving", "Finalized">>, <<"Disputed", "Finalized">>,
                 <<"Proposed", "Cancelled">>, <<"Approved", "Cancelled">>}]_vars

\* C2: every step that moves the market into Finalized is an instruction that
\* evaluated verify_bounded_loss on the market's liquidity and b parameter
\* and saw it pass.
C2_FinalizedOnlyAfterVerifier ==
    [][market.state # "Finalized" /\ market'.state = "Finalized"
         => last'.verified]_vars

\* C3: every step from Disputed to Finalized on tallies (agree, disagree)
\* leaves final_outcome = the proposed outcome flipped (YES<->NO, INVALID
\* kept) when agree * 10000 / (agree + disagree) >= dispute_success_threshold,
\* and = the proposed outcome otherwise.
C3_DisputedFinalizedOutcome ==
    [][market.state = "Disputed" /\ market'.state = "Finalized"
         => LET agree == market'.dispute_agree
                total == market'.dispute_agree + market'.dispute_disagree
                met == total > 0
                       /\ (agree * 10000) \div total >= config.dispute_success_threshold
                flipped == CASE market.proposed_outcome = "YES" -> "NO"
                             [] market.proposed_outcome = "NO" -> "YES"
                             [] OTHER -> "NONE"
            IN  market'.final_outcome =
                    IF met THEN flipped ELSE market.proposed_outcome]_vars

\* C4: every step from Proposed to Approved leaves proposal tallies with
\* likes + dislikes > 0 and likes * 10000 / (likes + dislikes) >=
\* proposal_approval_threshold.
C4_ApprovedOnlyOnVotes ==
    [][market.state = "Proposed" /\ market'.state = "Approved"
         => LET likes == market'.proposal_likes
                total_votes == market'.proposal_likes + market'.proposal_dislikes
            IN  /\ total_votes > 0
                /\ (likes * 10000) \div total_votes
                       >= config.proposal_approval_threshold]_vars

\* C5: in every reachable state, a market whose initial_liquidity exceeds its
\* current_liquidity has initial_liquidity - current_liquidity <=
\* b_parameter * LN_2 / PRECISION.
C5_LossBounded ==
    Exists(market) /\ market.initial_liquidity > market.current_liquidity
        => market.initial_liquidity - market.current_liquidity
               <= (market.b_parameter * LN_2) \div PRECISION

\* C6: no step changes the state of a market that is Finalized or Cancelled.
C6_TerminalStatesStay ==
    [][market.state \in {"Finalized", "Cancelled"}
         => market'.state = market.state]_vars

\* C6 witness: a Finalized market on which a later instruction (the
\* creator's withdrawal) has been committed.
C6_WithdrawnAfterFinalized ==
    market.state = "Finalized" /\ last.op = "withdraw_liquidity"

\* C7: in every reachable state and for every buy and sell call, the call
\* returns Ok only if the market is Active, the protocol is not paused and
\* the trade size (target_cost of the buy, pre-fee proceeds of the sell) is
\* at least MIN_TRADE_AMOUNT; a buy on a market that is not Active, under
\* pause or below the minimum is refused with InvalidMarketState,
\* ProtocolPaused, TradeTooSmall in that order, a sell on a market that is
\* not Active or under pause is refused, and a refused call returns the
\* market, the positions and the balance as they were.
C7_TradesGuarded ==
    /\ \A user \in Traders, outcome \in BOOLEAN, target_cost \in TargetCosts :
           LET r == buy_shares(user, outcome, target_cost)
               refusal == IF market.state # "Active" THEN "InvalidMarketState"
                          ELSE IF config.is_paused THEN "ProtocolPaused"
                          ELSE IF target_cost < MIN_TRADE_AMOUNT THEN "TradeTooSmall"
                          ELSE "Ok"
           IN  /\ r.err = "Ok" => /\ market.state = "Active"
                                  /\ ~config.is_paused
                                  /\ target_cost >= MIN_TRADE_AMOUNT
               /\ Exists(market) /\ refusal # "Ok" => r.err = refusal
               /\ r.err # "Ok" => /\ r.market = market
                                  /\ r.positions = positions
                                  /\ r.lamports = lamports
    /\ \A user \in Traders, outcome \in BOOLEAN, shares_to_sell \in ShareAmounts,
          min_proceeds \in MinProceeds :
           LET r == sell_shares(user, outcome, shares_to_sell, min_proceeds)
           IN  /\ r.err = "Ok" => /\ market.state = "Active"
                                  /\ ~config.is_paused
                                  /\ r.size >= MIN_TRADE_AMOUNT
               /\ market.state # "Active" \/ config.is_paused => r.err # "Ok"
               /\ r.err # "Ok" => /\ r.market = market
                                  /\ r.positions = positions
                                  /\ r.lamports = lamports

\* C7 witness: an Active market under pause, where a buy of the minimum
\* trade amount is refused because of the pause.
C7_BuyRefusedUnderPause ==
    /\ market.state = "Active"
    /\ config.is_paused
    /\ buy_shares("user", TRUE, MIN_TRADE_AMOUNT).err = "ProtocolPaused"

\* C12: on an Active, unpaused market with no shares outstanding, b_parameter
\* >= MIN_B and the default fee rates 300/200/500, for either outcome there
\* is a target cost >= MIN_TRADE_AMOUNT with which buy_shares returns Ok,
\* charges the buyer at most the target cost, and raises the market's and
\* the buyer's shares of that outcome by the same positive amount.
C12_FreshBuySucceeds ==
    /\ market.state = "Active"
    /\ ~config.is_paused
    /\ market.shares_yes = 0 /\ market.shares_no = 0
    /\ market.b_parameter >= MIN_B
    /\ config.protocol_fee_bps = 300
    /\ config.resolver_reward_bps = 200
    /\ config.liquidity_provider_fee_bps = 500
    => \A user \in Traders, outcome \in BOOLEAN :
         \E target_cost \in TargetCosts :
           LET r == buy_shares(user, outcome, target_cost)
               minted == IF outcome
                         THEN r.market.shares_yes - market.shares_yes
                         ELSE r.market.shares_no - market.shares_no
               received == IF outcome
                           THEN r.positions[user].shares_yes
                                    - positions[user].shares_yes
                           ELSE r.positions[user].shares_no
                                    - positions[user].shares_no
           IN  /\ target_cost >= MIN_TRADE_AMOUNT
               /\ r.err = "Ok"
               /\ r.market.total_volume - market.total_volume <= target_cost
               /\ minted > 0
               /\ minted = received

\* C13: in every reachable state a market that exists has b_parameter >=
\* MIN_B, and create_market refuses every b_parameter below MIN_B.
C13_BParameterAtLeastMinB ==
    /\ Exists(market) => market.b_parameter >= MIN_B
    /\ \A creator \in Creators, b_parameter \in BParams,
          initial_liquidity \in Liquidities :
           b_parameter < MIN_B
               => create_market(creator, b_parameter, initial_liquidity).err # "Ok"

\* C14: in every reachable state, every buy_shares, sell_shares,
\* claim_winnings and withdraw_liquidity call that returns Ok made each of
\* its lamport transfers with the market's lock held and leaves the market
\* unlocked.
C14_TransfersUnderLock ==
    LET Guarded(r) ==
            r.err = "Ok" => /\ \A i \in 1 .. Len(r.transfers) : r.transfers[i]
                            /\ ~r.market.is_locked
    IN  /\ \A user \in Traders, outcome \in BOOLEAN, target_cost \in TargetCosts :
               Guarded(buy_shares(user, outcome, target_cost))
        /\ \A user \in Traders, outcome \in BOOLEAN, shares_to_sell \in ShareAmounts,
              min_proceeds \in MinProceeds :
               Guarded(sell_shares(user, outcome, shares_to_sell, min_proceeds))
        /\ \A user \in Traders, resolver \in Signers :
               Guarded(claim_winnings(user, resolver))
        /\ \A creator \in Signers : Guarded(withdraw_liquidity(creator))

C20_DisputeOnlyInWindow ==
    /\ \A initiator \in Initiators :
           LET r == initiate_dispute(initiator)
               deadline == market.resolution_proposed_at + config.dispute_period
           IN  /\ r.err = "Ok" => /\ market.state = "Resolving"
                                  /\ market.resolution_proposed_at < now
                                  /\ now < deadline
                                  /\ r.market.state = "Disputed"
                                  /\ r.market.dispute_agree = 0
                                  /\ r.market.dispute_disagree = 0
                                  /\ r.market.dispute_total_votes = 0
               /\ market.state = "Resolving" /\ now >= deadline
                      => r.err = "DisputePeriodEnded"
    /\ market.state = "Disputed"
           => /\ last.op \in {"initiate_dispute", "submit_dispute_vote"}
              /\ market.resolution_proposed_at < market.dispute_initiated_at
              /\ market.dispute_initiated_at
                     < market.resolution_proposed_at + config.dispute_period
              /\ market.dispute_agree = 0
              /\ market.dispute_disagree = 0
              /\ market.dispute_total_votes = 0

\* C20 witness: a market disputed for the second time (an earlier dispute
\* succeeded and left its tallies behind), Disputed again by initiate_dispute
\* with the counters back at zero.
C20_DisputedAgain ==
    /\ market.state = "Disputed"
    /\ last.op = "initiate_dispute"
    /\ market.was_disputed
    /\ market.dispute_total_votes = 0

\* C21: in every reachable state and for every finalize_market call on a
\* Resolving market: the call returns Ok only if now >= resolution_proposed_at
\* + dispute_period and no dispute was ever initiated on the market, and it
\* then returns the market Finalized with final_outcome = proposed_outcome;
\* a call of the backend authority before that deadline fails with
\* DisputePeriodNotEnded.
C21_UndisputedFinalization ==
    \A backend_authority \in Backends, a \in FinalizeArgs :
        LET r == finalize_market(backend_authority, a[1], a[2])
            deadline == market.resolution_proposed_at + config.dispute_period
        IN  market.state = "Resolving"
            => /\ r.err = "Ok"
                    => /\ now >= deadline
                       /\ market.dispute_initiator = NoKey
                       /\ market.dispute_initiated_at = 0
                       /\ r.market.state = "Finalized"
                       /\ r.market.final_outcome = market.proposed_outcome
               /\ now < deadline /\ backend_authority = config.backend_authority
                    => r.err = "DisputePeriodNotEnded"

\* C22: once a resolution has been proposed on a market, every resolve_market
\* call on it fails, and no step changes its proposed outcome, its evidence
\* reference, its resolver or its resolution timestamp.
C22_ResolvedOnce ==
    /\ [](market.proposed_outcome # "NONE"
            => \A resolver \in Resolvers, proposed_outcome \in BOOLEAN :
                   resolve_market(resolver, proposed_outcome).err # "Ok")
    /\ [][market.proposed_outcome # "NONE"
            => /\ market'.proposed_outcome = market.proposed_outcome
               /\ market'.ipfs_evidence_hash = market.ipfs_evidence_hash
               /\ market'.resolver = market.resolver
               /\ market'.resolution_proposed_at = market.resolution_proposed_at]_vars

\* C22 witness: a market under resolution, later in time than its resolution,
\* on which a second resolve_market call is refused.
C22_SecondResolveRefused ==
    /\ market.state = "Resolving"
    /\ now > market.resolution_proposed_at
    /\ resolve_market("user", TRUE).err = "InvalidMarketState"

\* C23: in every reachable state and for every cancel_market call: the call
\* returns Ok only on a Proposed or Approved market and only when signed by
\* the admin, and then returns the market Cancelled; on an Active, Resolving,
\* Disputed, Finalized or Cancelled market, or signed by anyone else, it
\* fails and returns the market as it was; and a market that is Cancelled
\* was cancelled by a cancel_market call of the admin.
C23_CancelledOnlyByAdminEarly ==
    /\ \A admin \in Admins :
           LET r == cancel_market(admin)
           IN  /\ r.err = "Ok" => /\ market.state \in {"Proposed", "Approved"}
                                  /\ admin = config.admin
                                  /\ r.market.state = "Cancelled"
               /\ \/ market.state \in {"Active", "Resolving", "Disputed",
                                       "Finalized", "Cancelled"}
                  \/ admin # config.admin
                  => r.err # "Ok" /\ r.market = market
               /\ market.state \in {"Proposed", "Approved"} /\ admin = config.admin
                  => r.err = "Ok"
    /\ market.state = "Cancelled"
           => /\ last.op = "cancel_market"
              /\ last.caller = config.admin
              /\ market.activated_at = 0

\* C23 witness: a Cancelled market, on which a further cancel_market call of
\* the admin is refused.
C23_CancelledAndRefused ==
    /\ market.state = "Cancelled"
    /\ market.approved_at > 0 \/ market.proposal_likes > 0
    /\ cancel_market("admin").err = "MarketAlreadyCancelled"

\* C24: in every reachable state there is at most one VoteRecord for each
\* voter and vote kind; a submit_proposal_vote / submit_dispute_vote call
\* returns Ok only when the voter has no record of that kind and the market
\* is Proposed / Disputed, and then adds exactly the new record; a call of a
\* voter who has a record of that kind is refused; and no step removes or
\* changes an existing record.
C24_OneVotePerVoterAndKind ==
    /\ [](/\ \A r1, r2 \in vote_records :
                r1.user = r2.user /\ r1.vote_type = r2.vote_type => r1 = r2
          /\ \A user \in Voters, vote \in BOOLEAN :
                LET p == submit_proposal_vote(user, vote)
                    d == submit_dispute_vote(user, vote)
                IN  /\ p.err = "Ok"
                         => /\ ~HasVoteRecord(user, "Proposal")
                            /\ market.state = "Proposed"
                            /\ p.vote_records = vote_records \cup
                                   {[user |-> user, vote_type |-> "Proposal",
                                     vote |-> vote]}
                    /\ d.err = "Ok"
                         => /\ ~HasVoteRecord(user, "Dispute")
                            /\ market.state = "Disputed"
                            /\ d.vote_records = vote_records \cup
                                   {[user |-> user, vote_type |-> "Dispute",
                                     vote |-> vote]}
                    /\ HasVoteRecord(user, "Proposal") => p.err # "Ok"
                    /\ HasVoteRecord(user, "Dispute") => d.err # "Ok")
    /\ [][vote_records \subseteq vote_records']_vars

\* C24 witness: the voter has a proposal record and a dispute record, the
\* market is Disputed, and a second dispute vote of the voter is refused.
C24_SecondVoteRefused ==
    /\ Cardinality(vote_records) = 2
    /\ market.state = "Disputed"
    /\ submit_dispute_vote("user", TRUE).err = "AccountAlreadyInUse"

\* C25: in every reachable state and for every activate_market call: the
\* call returns Ok only on an Approved market with current_liquidity >=
\* initial_liquidity and only when signed by the admin or the market's
\* creator, and then returns the market Active; signed by anyone else it
\* fails with Unauthorized and returns the market as it was; and a market
\* that is Active was activated by such a call.
C25_ActivatedByAdminOrCreator ==
    /\ \A authority \in Signers :
           LET r == activate_market(authority)
               entitled == authority = config.admin \/ authority = market.creator
           IN  /\ r.err = "Ok" => /\ market.state = "Approved"
                                  /\ entitled
                                  /\ market.current_liquidity
                                         >= market.initial_liquidity
                                  /\ r.market.state = "Active"
               /\ Exists(market) /\ ~entitled
                  => r.err = "Unauthorized" /\ r.market = market
               /\ market.state = "Approved" /\ entitled
                      /\ market.current_liquidity >= market.initial_liquidity
                  => r.err = "Ok"
    /\ market.state = "Active"
           => /\ last.op = "activate_market"
              /\ last.caller \in {config.admin, market.creator}
              /\ market.current_liquidity >= market.initial_liquidity

\* C25 witness: a market the creator has activated, on which a call of a
\* third party is refused as unauthorized.
C25_ActivatedByCreator ==
    /\ market.state = "Active"
    /\ last.op = "activate_market"
    /\ last.caller = "creator"
    /\ activate_market("user").err = "Unauthorized"

\* C26: in every reachable state, on a Proposed market whose recorded tallies
\* have proposal_likes + proposal_dislikes > 0 and proposal_likes * 10000 /
\* (proposal_likes + proposal_dislikes) >= proposal_approval_threshold,
\* approve_proposal signed by the admin returns Ok with the market Approved.
C26_ApprovalOnMetThreshold ==
    LET total == market.proposal_likes + market.proposal_dislikes
        r == approve_proposal(config.admin)
    IN  /\ market.state = "Proposed"
        /\ total > 0
        /\ (market.proposal_likes * 10000) \div total
               >= config.proposal_approval_threshold
        => r.err = "Ok" /\ r.market.state = "Approved"

\* C27: in every reachable state and for every aggregation call that returns
\* Ok: tallies that do not meet the threshold (votes_for * 10000 / total >=
\* threshold, with total > 0) leave the market in the state it was in, and
\* tallies that meet it move the market out of that state; an aggregation on
\* a market that has left the voting state (Proposed for proposal votes,
\* Disputed for dispute votes) is refused; and a market on which a dispute
\* aggregation has decided is never Disputed again.
C27_AggregationOneWay ==
    LET Meets(votes_for, votes_against, threshold) ==
            /\ votes_for + votes_against > 0
            /\ (votes_for * 10000) \div (votes_for + votes_against) >= threshold
    IN  /\ \A backend_authority \in Backends, t \in ProposalTallies :
               LET r == aggregate_proposal_votes(backend_authority, t[1], t[2])
               IN  /\ r.err = "Ok"
                        => IF Meets(t[1], t[2], config.proposal_approval_threshold)
                           THEN r.market.state # "Proposed"
                           ELSE r.market.state = market.state
                   /\ market.state # "Proposed" => r.err # "Ok"
        /\ \A backend_authority \in Backends, t \in DisputeTallies :
               LET r == aggregate_dispute_votes(backend_authority, t[1], t[2])
               IN  /\ r.err = "Ok"
                        => IF Meets(t[1], t[2], config.dispute_success_threshold)
                           THEN r.market.state # "Disputed"
                           ELSE r.market.state = market.state
                   /\ market.state # "Disputed" => r.err # "Ok"
        /\ market.state = "Disputed" => ~market.was_disputed

\* C28: in every reachable state the lifecycle timestamps a market has
\* recorded are strictly increasing in the order created, approved,
\* activated, resolution proposed, dispute initiated, finalized; in
\* particular a Finalized market has finalized_at > resolution_proposed_at.
C28_TimestampsMonotone ==
    LET approved == market.state \in {"Approved", "Active", "Resolving",
                                      "Disputed", "Finalized"}
        activated == market.state \in {"Active", "Resolving", "Disputed",
                                       "Finalized"}
        resolved == market.state \in {"Resolving", "Disputed", "Finalized"}
        disputed == market.dispute_initiator # NoKey
        finalized == market.state = "Finalized"
    IN  /\ approved => market.approved_at > market.created_at
        /\ activated => market.activated_at > market.approved_at
        /\ resolved => market.resolution_proposed_at > market.activated_at
        /\ disputed => market.dispute_initiated_at > market.resolution_proposed_at
        /\ finalized => market.finalized_at > market.resolution_proposed_at
        /\ finalized /\ disputed
               => market.finalized_at > market.dispute_initiated_at

\* C33: in every reachable state, update_global_config, emergency_pause,
\* approve_proposal and cancel_market return Ok only when signed by the
\* configured admin, and aggregate_proposal_votes, aggregate_dispute_votes
\* and finalize_market only when signed by the configured backend authority;
\* signed by anyone else they fail and return every account as it was.
C33_PrivilegedCallersOnly ==
    LET Refused(r) == r.err # "Ok" /\ r = Rejected(r.err)
    IN  /\ \A admin \in Signers \ {config.admin} :
               /\ \A a \in ConfigUpdates : Refused(update_global_config(admin, a))
               /\ Refused(emergency_pause(admin))
               /\ Refused(approve_proposal(admin))
               /\ Refused(cancel_market(admin))
        /\ \A backend_authority \in Signers \ {config.backend_authority} :
               /\ \A t \in ProposalTallies :
                      Refused(aggregate_proposal_votes(backend_authority, t[1], t[2]))
               /\ \A t \in DisputeTallies :
                      Refused(aggregate_dispute_votes(backend_authority, t[1], t[2]))
               /\ \A a \in FinalizeArgs :
                      Refused(finalize_market(backend_authority, a[1], a[2]))

\* C33 witness: the protocol paused by the admin and a market finalized by
\* the backend authority, on which the creator's emergency_pause is refused
\* as Unauthorized.
C33_PausedAndFinalizedByAuthorities ==
    /\ config.is_paused
    /\ market.state = "Finalized"
    /\ last.op = "finalize_market"
    /\ last.caller = config.backend_authority
    /\ emergency_pause("creator").err = "Unauthorized"

C37_LiquidityIsBacked ==
    Exists(market) => lamports - RentExemptMinimum >= market.current_liquidity

\* C38: in every reachable state a Resolving or Disputed market can still be
\* finalized: finalize_market or an aggregation of dispute tallies by the
\* backend authority succeeds, or a dispute can be initiated, or the clock
\* has yet to reach an instant at which the timestamp checks come out
\* differently.
C38_NeverStuck ==
    market.state \in {"Resolving", "Disputed"}
        => \/ \E a \in FinalizeArgs :
                  finalize_market(config.backend_authority, a[1], a[2]).err = "Ok"
           \/ \E t \in DisputeTallies :
                  aggregate_dispute_votes(config.backend_authority, t[1], t[2]).err = "Ok"
           \/ \E initiator \in Initiators : initiate_dispute(initiator).err = "Ok"
           \/ now <= market.created_at + TenYears

\* ------------------------------------------------------------------------
\* Properties of the global configuration
\* ------------------------------------------------------------------------
\* C18: in every reachable state the configuration has protocol + resolver
\* + LP fee rates <= 10000, proposal and dispute thresholds <= 10000 each,
\* and a minimum resolution delay and a dispute period > 0.
C18_ConfigInvariants ==
    /\ config.protocol_fee_bps + config.resolver_reward_bps
           + config.liquidity_provider_fee_bps <= 10000
    /\ config.proposal_approval_threshold <= 10000
    /\ config.dispute_success_threshold <= 10000
    /\ config.min_resolution_delay > 0
    /\ config.dispute_period > 0

\* C18 witness: the configuration after an accepted update (zero rates, a
\* one-second resolution delay) and an emergency pause.
C18_UpdatedAndPaused ==
    /\ config.protocol_fee_bps = 0
    /\ config.min_resolution_delay = 1
    /\ config.is_paused

\* C19: in every reachable state and for every update_global_config call: a
\* call whose arguments fail a validation (fee sum > 10000, a threshold >
\* 10000, a supplied time limit <= 0) or whose signer is not the admin is
\* refused and returns the configuration as it was; a call that is accepted
\* returns the configuration with the five rates and thresholds set to the
\* arguments, each supplied time limit set and each omitted one kept, and
\* every other field as it was.
C19_UpdateAllOrNothing ==
    \A admin \in Admins, a \in ConfigUpdates :
        LET r == update_global_config(admin, a)
            valid == /\ a.p + a.r + a.l <= 10000
                     /\ a.pat <= 10000
                     /\ a.dst <= 10000
                     /\ a.delay.some => a.delay.v > 0
                     /\ a.period.some => a.period.v > 0
        IN  /\ r.err = "Ok" <=> (valid /\ admin = config.admin)
            /\ r.err # "Ok" => r.config = config
            /\ r.err = "Ok" =>
                  r.config =
                    [admin |-> config.admin,
                     backend_authority |-> config.backend_authority,
                     protocol_fee_bps |-> a.p,
                     resolver_reward_bps |-> a.r,
                     liquidity_provider_fee_bps |-> a.l,
                     proposal_approval_threshold |-> a.pat,
                     dispute_success_threshold |-> a.dst,
                     min_resolution_delay |->
                         IF a.delay.some THEN a.delay.v
                         ELSE config.min_resolution_delay,
                     dispute_period |->
                         IF a.period.some THEN a.period.v
                         ELSE config.dispute_period,
                     min_resolver_reputation |-> config.min_resolver_reputation,
                     is_paused |-> config.is_paused]

\* C19 witness: a configuration that an accepted update has changed (zero
\* thresholds, one-second delay), in which an update with a fee sum of
\* 11000 is refused.
C19_RefusedAfterUpdate ==
    /\ config.proposal_approval_threshold = 0
    /\ config.min_resolution_delay = 1
    /\ update_global_config("admin",
           [p |-> 5000, r |-> 3000, l |-> 3000, pat |-> 7000, dst |-> 6000,
            delay |-> None, period |-> None]).err = "InvalidFeeStructure"

\* ------------------------------------------------------------------------
\* Properties of the library functions (under SpecMath)
\* ------------------------------------------------------------------------
\* C9: for every amount and every rate triple with sum <= 10000,
\* calculate_fees_accurate returns a breakdown with protocol_fee +
\* resolver_fee + lp_fee = total_fees and total_fees = floor(amount * sum /
\* 10000).
C9_FeesSumExactly ==
    call.fn = "calculate_fees_accurate"
        => LET amount == call.args[1]
               sum == call.args[2] + call.args[3] + call.args[4]
           IN  sum <= 10000
                   => /\ IsOk(call.result)
                      /\ call.result.v.protocol_fee + call.result.v.resolver_fee
                             + call.result.v.lp_fee = call.result.v.total_fees
                      /\ call.result.v.total_fees = (amount * sum) \div 10000

\* C10: fixed_exp(x) returns a value for every 0 <= x <= MAX_EXP and fails
\* with ExponentTooLarge for every x > MAX_EXP.
C10_ExpTotalOnDomain ==
    call.fn = "fixed_exp"
        => LET x == call.args[1]
           IN  /\ x <= MAX_EXP => IsOk(call.result)
               /\ x > MAX_EXP => call.result.err = "ExponentTooLarge"

\* C11: for every b >= MIN_B and every target cost, calculate_buy_cost on a
\* market with no shares outstanding returns a pair <<actual cost, shares>>
\* with shares <= 20 * b: no probe of the binary search leaves fixed_exp's
\* domain and the call does not fail with an arithmetic error.
C11_SolverReturnsShares ==
    call.fn = "calculate_buy_cost" /\ call.args[3] >= MIN_B
        => /\ IsOk(call.result)
           /\ call.result.v[2] <= 20 * call.args[3]


\* C29: for every (q_yes, q_no, b) with b >= MIN_B on which the YES price is
\* defined, the NO price is defined too, 0 <= price_yes <= PRECISION, and
\* price_yes + price_no = PRECISION exactly.
C29_PricesSumToOne ==
    call.fn = "calculate_no_price" /\ call.args[3] >= MIN_B
        => LET yes_price == calculate_yes_price(call.args[1], call.args[2],
                                                call.args[3])
           IN  /\ IsOk(yes_price) <=> IsOk(call.result)
               /\ IsOk(yes_price)
                      => /\ 0 <= yes_price.v
                         /\ yes_price.v <= PRECISION
                         /\ yes_price.v + call.result.v = PRECISION

\* C29 witness: a NO price returned for a market on which YES leads, so that
\* the two prices differ.
C29_NoPriceOfUnevenMarket ==
    /\ call.fn = "calculate_no_price"
    /\ call.args[3] >= MIN_B
    /\ call.args[1] > call.args[2]
    /\ IsOk(call.result)
    /\ call.result.v < PRECISION \div 2

\* C30: for every (q_yes, q_no, b) and every d > 0 for which the prices are
\* defined, price_yes(q_yes + d, q_no, b) > price_yes(q_yes, q_no, b) and
\* price_no(q_yes, q_no + d, b) > price_no(q_yes, q_no, b).
C30_BuyingRaisesPrice ==
    /\ call.fn = "calculate_yes_price" /\ IsOk(call.result)
           => \A d \in PriceShares \ {0} :
                  LET after == calculate_yes_price(call.args[1] + d,
                                                   call.args[2], call.args[3])
                  IN  IsOk(after) => after.v > call.result.v
    /\ call.fn = "calculate_no_price" /\ IsOk(call.result)
           => \A d \in PriceShares \ {0} :
                  LET after == calculate_no_price(call.args[1],
                                                  call.args[2] + d, call.args[3])
                  IN  IsOk(after) => after.v > call.result.v


C32_BoundedLossExactly ==
    /\ calculate_max_loss(1000 * PRECISION) = Ok(1000 * LN_2)
    /\ call.fn = "verify_bounded_loss"
           => LET initial == call.args[1]
                  current == call.args[2]
                  loss == IF initial - current > 0 THEN initial - current ELSE 0
                  max_loss == (call.args[3] * LN_2) \div PRECISION
              IN  /\ call.result.err = "BoundedLossExceeded" <=> loss > max_loss
                  /\ loss <= max_loss => IsOk(call.result)

\* C32 witness: a positive loss exactly equal to the maximum of b, accepted.
C32_LossAtTheBoundPasses ==
    /\ call.fn = "verify_bounded_loss"
    /\ call.args[3] = 1000 * PRECISION
    /\ call.args[1] - call.args[2] = 1000 * LN_2
    /\ IsOk(call.result)

====
